---- MODULE Spec2Model ----
(***************************************************************************)
(* Model of tour-guide-react/backend/main.py: the POST /api/tour handler   *)
(* create_tour, the scenic point finder find_scenic_points and the place   *)
(* details lookup get_place_details.                                       *)
(*                                                                         *)
(* One request is one coroutine.  Between two awaits the coroutine runs    *)
(* without interruption, so a step of the model is the code from one       *)
(* await to the next: it takes the provider's answer to the call in        *)
(* flight, runs the code that follows and ends where the next call has     *)
(* been issued (or the response returned).  The provider's answers are the *)
(* inputs; they are drawn when the call returns.                           *)
(***************************************************************************)
EXTENDS Integers, Sequences, FiniteSets, TLC

(* ------------------------------ bounds --------------------------------- *)
\* Most places one nearby-search answer lists.
MaxResults == 4
\* Most nearby-search / details calls of one request that fail.
MaxFaults == 1

(* ------------------------- program constants --------------------------- *)
PerKeyword == 3
MaxPoints == 5
BudgetFactor == 2

\* Python's None.  Texts are tuples of pieces, so None is one too.
None == <<"None">>

\* An empty dict: a function with an empty domain.
EmptyDict == [k \in {} |-> None]

\* dict.get(key, default)
Get(d, key, default) == IF key \in DOMAIN d THEN d[key] ELSE default

\* d[key] = value on a dict
Put(d, key, value) ==
    [k \in (DOMAIN d) \cup {key} |-> IF k = key THEN value ELSE d[k]]

\* seq[:n]
Take(seq, n) == SubSeq(seq, 1, IF Len(seq) < n THEN Len(seq) ELSE n)

simple_categories ==
    << [type |-> "attraction",
        keywords |-> <<"tourist attraction", "landmark", "point of interest">>,
        weight |-> 1],
       [type |-> "nature",
        keywords |-> <<"park", "lake", "scenic view">>,
        weight |-> 1] >>

\* The values of TourRequest.eta_tolerance tried (minutes; 30 is the default).
EtaValues == {15, 30}

\* The durations in seconds the provider gives for the fastest leg and for
\* the scenic leg: below, at and above twice the fastest.
FastDurations == {1000}
ScenicDurations == {1900, 2000, 2100}

(* ------------------------- provider answers ---------------------------- *)
\* An answer of the provider to one call.  kind "exc": client.get raised
\* (network failure, timeout).  Otherwise an HTTP response arrived: its
\* status code, whether its body is JSON, and the status field of the JSON.
\* n is the number of places listed (nearby-search, details: 0), dur the
\* duration in seconds of the first leg of the first route (directions).
\* A response other than 200 never carries a body with status "OK".
Answer(kind, code, json, status, n, dur) ==
    [kind |-> kind, code |-> code, json |-> json, status |-> status,
     n |-> n, dur |-> dur]

Failures ==
    { Answer("exc", 0, FALSE, "", 0, 0),
      Answer("http", 503, FALSE, "", 0, 0),
      Answer("http", 200, FALSE, "", 0, 0),
      Answer("http", 200, TRUE, "ZERO_RESULTS", 0, 0) }

DirectionsAnswers(durs) ==
    Failures \cup { Answer("http", 503, TRUE, "UNKNOWN_ERROR", 0, 0) }
             \cup { Answer("http", 200, TRUE, "OK", 0, d) : d \in durs }

NearbyAnswers ==
    Failures \cup { Answer("http", 200, TRUE, "OK", n, 0) : n \in 0..MaxResults }

DetailsAnswers ==
    Failures \cup { Answer("http", 200, TRUE, "OK", 0, 0) }

\* No answer yet.
NoAnswer == Answer("none", 0, FALSE, "", 0, 0)

\* The answer is a 200 response whose JSON body has status "OK".
IsOK(ans) == ans.kind = "http" /\ ans.code = 200 /\ ans.json /\ ans.status = "OK"

\* The places a nearby-search for keyword lists, in provider order.
ProviderResults(keyword, n) ==
    [i \in 1..n |->
        [place_id |-> <<keyword, i>>,
         name |-> <<"name", keyword, i>>,
         geometry |-> [location |-> [lat |-> i, lng |-> i]]]]

\* The result object of a successful details call.
DetailsResult(place_id) ==
    [formatted_address |-> <<"addr", place_id>>,
     editorial_summary |-> [overview |-> <<"about", place_id>>],
     website |-> <<"www", place_id>>,
     formatted_phone_number |-> <<"tel", place_id>>,
     opening_hours |-> [weekday_text |-> <<"Mon-Sun">>]]

VARIABLES
    request,              \* the TourRequest
    pc,                   \* where the coroutine stands
    fast_route_response,  \* create_tour: the answer to the fastest-route call
    base_duration,        \* create_tour: fast_leg["duration"]["value"]
    max_duration,         \* create_tour: base_duration * 2
    response_data,        \* create_tour: the response being built
    scenic_points,        \* create_tour: what find_scenic_points returned
    scenic_response,      \* create_tour: the answer to the scenic-route call
    cat,                  \* find_scenic_points: position of the category loop
    kw,                   \* find_scenic_points: position of the keyword loop
    places,               \* find_scenic_points: data["results"][:3] being looped over
    idx,                  \* find_scenic_points: position in places
    all_points,           \* find_scenic_points: the accumulated points
    trace,                \* history of the running find_scenic_points: its calls
    issued,               \* history: the kinds of call issued so far
    inflight,             \* the calls issued and not yet answered
    reply                 \* what the endpoint answers

frame == <<cat, kw, places, idx, all_points, trace>>

locals == <<fast_route_response, base_duration, max_duration, response_data,
            scenic_points, scenic_response>>

vars == <<request, pc, locals, frame, issued, inflight, reply>>

NoReply == [code |-> 0, detail |-> <<>>, body |-> EmptyDict]

Init ==
    /\ request \in [scenic : BOOLEAN, eta_tolerance : EtaValues]
    /\ pc = "start"
    /\ fast_route_response = NoAnswer
    /\ base_duration = 0
    /\ max_duration = 0
    /\ response_data = EmptyDict
    /\ scenic_points = <<>>
    /\ scenic_response = NoAnswer
    /\ cat = 1
    /\ kw = 1
    /\ places = <<>>
    /\ idx = 1
    /\ all_points = <<>>
    /\ trace = <<>>
    /\ issued = {}
    /\ inflight = {}
    /\ reply = NoReply

(* ------------------------------ history -------------------------------- *)
Min(a, b) == IF a < b THEN a ELSE b

\* A call of find_scenic_points is issued.
Traced(tr, api, arg) ==
    Append(tr, [api |-> api, arg |-> arg, outcome |-> "pending", listed |-> 0])

\* The call in flight is answered.  Of the number of places a nearby-search
\* lists the history keeps what the first PerKeyword positions hold.
Answered(ans) ==
    [trace EXCEPT ![Len(trace)] =
        [@ EXCEPT !.outcome = IF IsOK(ans) THEN "ok" ELSE "failed",
                  !.listed = IF IsOK(ans) THEN Min(ans.n, PerKeyword) ELSE 0]]

Faults == Cardinality({i \in 1..Len(trace) : trace[i].outcome = "failed"})

\* A failing answer is possible while the fault bound is not reached.
Admitted(ans) == IsOK(ans) \/ Faults < MaxFaults

(* ------------------------------ awaiting ------------------------------- *)
Call(api, arg) == [api |-> api, arg |-> arg]

\* The coroutine goes on without the answer: the call stays in flight.
ResumedEarly(calls, api) == calls

\* await client.get(...): the coroutine goes on when the call is answered,
\* so the call it resumes from is no longer in flight.
Resumed(calls, api) == { c \in calls : c.api # api }

\* client.get(...) is entered: the call goes out and the coroutine waits.
Issue(calls, api, arg) ==
    /\ inflight' = calls \cup {Call(api, arg)}
    /\ issued' = issued \cup {api}

(* --------------------------- error handling ---------------------------- *)
ClientError(ans) ==
    IF ans.kind = "exc" THEN [type |-> "ConnectError"]
    ELSE [type |-> "JSONDecodeError"]

HTTPException(status_code, detail) ==
    [type |-> "HTTPException", status_code |-> status_code, detail |-> detail]

StatusText(code) == IF code = 400 THEN "400" ELSE "500"

\* str(e).  An HTTPException built with keyword arguments has empty args;
\* its text is "<status_code>: <detail>" where the installed Starlette
\* defines __str__, and empty where it does not.
StrOf(e) ==
    IF e.type = "HTTPException"
    THEN { <<>>, <<StatusText(e.status_code), ": ">> \o e.detail }
    ELSE { <<e.type>> }

\* An exception raised inside the try block of create_tour: the except
\* clause answers it.
Raise(e) ==
    /\ \E s \in StrOf(e) :
          reply' = [code |-> 500, detail |-> s, body |-> EmptyDict]
    /\ pc' = "done"

\* return response_data
Return(data) ==
    /\ reply' = [code |-> 200, detail |-> <<>>, body |-> data]
    /\ pc' = "done"

(* -------------------------- get_place_details -------------------------- *)
\* The lookup without its status checks and its exception handler.
get_place_details_unchecked(place_id, ans) == DetailsResult(place_id)

\* What get_place_details returns for the provider's answer.
get_place_details(place_id, ans) ==
    IF ans.kind = "http" /\ ans.code = 200 /\ ans.json /\ ans.status = "OK"
    THEN DetailsResult(place_id)
    ELSE EmptyDict

(* -------------------------- find_scenic_points ------------------------- *)
Keyword(c, k) == simple_categories[c].keywords[k]

Location(place) ==
    <<place.geometry.location.lat, ",", place.geometry.location.lng>>

PointData(category, place, details) ==
    [location |-> Location(place),
     type |-> category.type,
     name |-> place.name,
     weight |-> category.weight,
     place_id |-> place.place_id,
     address |-> Get(details, "formatted_address", None),
     description |-> Get(Get(details, "editorial_summary", EmptyDict), "overview", None),
     website |-> Get(details, "website", None),
     phone |-> Get(details, "formatted_phone_number", None),
     opening_hours |-> Get(Get(details, "opening_hours", EmptyDict), "weekday_text", <<>>)]

\* data["results"][:3]
Accepted(res) == Take(res, PerKeyword)

\* all_points[:6]
TruncatedLate(points) == Take(points, MaxPoints + 1)

\* all_points[:5]
Truncated(points) == Take(points, MaxPoints)

\* The nearby-search answer is one whose places are read.
NearbyOK(ans) == ans.kind = "http" /\ ans.code = 200 /\ ans.json /\ ans.status = "OK"

\* The loops also end once enough points are collected.
LastKeywordOrEnough ==
    \/ cat = Len(simple_categories) /\ kw = Len(simple_categories[cat].keywords)
    \/ Len(all_points) + 1 >= MaxPoints

LastKeyword == cat = Len(simple_categories) /\ kw = Len(simple_categories[cat].keywords)

\* The nearby-search of keyword k of category c goes out.
Search(calls, tr, c, k) ==
    /\ cat' = c
    /\ kw' = k
    /\ places' = <<>>
    /\ idx' = 1
    /\ trace' = Traced(tr, "nearbysearch", Keyword(c, k))
    /\ Issue(calls, "nearbysearch", Keyword(c, k))
    /\ pc' = "await_nearby"

\* The details call of place i of the keyword's accepted places goes out.
Detail(calls, tr, accepted, i) ==
    /\ places' = accepted
    /\ idx' = i
    /\ trace' = Traced(tr, "details", accepted[i].place_id)
    /\ Issue(calls, "details", accepted[i].place_id)
    /\ pc' = "await_details"
    /\ UNCHANGED <<cat, kw>>

\* Both loops are over: the return statement is reached.
EndSearch(calls, tr) ==
    /\ pc' = "return_points"
    /\ trace' = tr
    /\ inflight' = calls
    /\ places' = <<>>
    /\ idx' = 1
    /\ UNCHANGED <<cat, kw, issued>>

\* The loops move on to the next keyword, or end after the last one.
Advance(calls, tr) ==
    IF LastKeyword
    THEN EndSearch(calls, tr)
    ELSE IF kw < Len(simple_categories[cat].keywords)
    THEN Search(calls, tr, cat, kw + 1)
    ELSE Search(calls, tr, cat + 1, 1)

\* A failed nearby-search ends the whole search.
NextKeywordOrAbort(calls, tr) ==
    IF tr[Len(tr)].api = "nearbysearch" /\ tr[Len(tr)].outcome = "failed"
    THEN EndSearch(calls, tr)
    ELSE Advance(calls, tr)

\* The current keyword is finished, by the end of its loop body or by
\* "except ...: continue".
NextKeyword(calls, tr) == Advance(calls, tr)

(* ----------------------------- create_tour ----------------------------- *)
\* A budget of three times the fastest duration.
MaxDurationTriple(base) == base * 3

\* A budget of the fastest duration plus the request's tolerance in seconds.
MaxDurationEta(base) == base + request.eta_tolerance * 60

MaxDuration(base) == base * BudgetFactor

\* A failure of client.get that is swallowed where it happens.
CallRaisesNever(ans) == FALSE

\* client.get raises: the call met a network failure or a timeout.
CallRaises(ans) == ans.kind = "exc"

\* The budget check without the status check.
ScenicLegAcceptedAnyStatus(ans, budget) == ans.dur <= budget

\* The scenic leg is attached: status "OK" and within the budget.
ScenicLegAccepted(ans, budget) == ans.status = "OK" /\ ans.dur <= budget

Leg(dur) == [duration |-> dur]

\* The waypoints parameter of the scenic-route call.
ScenicWaypoints(points) == [i \in 1..Len(points) |-> <<"via:", points[i].location>>]

ScenicRoute(dur, points) == [duration |-> dur, scenic_points |-> points]

\* The request arrives; create_tour runs up to the fastest-route call.
Start ==
    /\ pc = "start"
    /\ Issue(inflight, "fast", <<>>)
    /\ pc' = "await_fast"
    /\ UNCHANGED <<request, reply, locals, frame>>

\* The fastest-route call is answered.
ReturnFast ==
    /\ pc = "await_fast"
    /\ \E ans \in DirectionsAnswers(FastDurations) :
         /\ fast_route_response' = ans
         /\ IF CallRaises(ans) \/ ~ans.json
            THEN /\ Raise(ClientError(ans))
                 /\ inflight' = Resumed(inflight, "fast")
                 /\ UNCHANGED <<base_duration, max_duration, response_data, frame, issued>>
            ELSE IF ans.status # "OK"
            THEN /\ Raise(HTTPException(400, <<"Could not find route: ", ans.status>>))
                 /\ inflight' = Resumed(inflight, "fast")
                 /\ UNCHANGED <<base_duration, max_duration, response_data, frame, issued>>
            ELSE /\ base_duration' = ans.dur
                 /\ max_duration' = MaxDuration(ans.dur)
                 /\ response_data' = Put(EmptyDict, "fastest_route", Leg(ans.dur))
                 /\ IF request.scenic
                    THEN /\ Search(Resumed(inflight, "fast"), <<>>, 1, 1)
                         /\ UNCHANGED <<reply, all_points>>
                    ELSE /\ Return(response_data')
                         /\ inflight' = Resumed(inflight, "fast")
                         /\ UNCHANGED <<frame, issued>>
    /\ UNCHANGED <<request, scenic_points, scenic_response>>

\* A nearby-search call is answered.
ReturnNearby ==
    /\ pc = "await_nearby"
    /\ \E ans \in NearbyAnswers :
         /\ Admitted(ans)
         /\ IF NearbyOK(ans) /\ ans.n > 0
            THEN Detail(Resumed(inflight, "nearbysearch"), Answered(ans),
                        Accepted(ProviderResults(Keyword(cat, kw), ans.n)), 1)
            ELSE NextKeyword(Resumed(inflight, "nearbysearch"), Answered(ans))
    /\ UNCHANGED <<request, reply, locals, all_points>>

\* A details call is answered.
ReturnDetails ==
    /\ pc = "await_details"
    /\ \E ans \in DetailsAnswers :
         /\ Admitted(ans)
         /\ all_points' =
               Append(all_points,
                      PointData(simple_categories[cat], places[idx],
                                get_place_details(places[idx].place_id, ans)))
         /\ IF idx < Len(places)
            THEN Detail(Resumed(inflight, "details"), Answered(ans), places, idx + 1)
            ELSE NextKeyword(Resumed(inflight, "details"), Answered(ans))
    /\ UNCHANGED <<request, reply, locals>>

\* find_scenic_points returns all_points[:5]; create_tour runs up to the
\* scenic-route call, or returns when there are no points.
ReturnPoints ==
    /\ pc = "return_points"
    /\ scenic_points' = Truncated(all_points)
    /\ cat' = 1
    /\ kw' = 1
    /\ all_points' = <<>>
    /\ trace' = <<>>
    /\ IF Len(scenic_points') > 0
       THEN /\ Issue(inflight, "scenic", ScenicWaypoints(scenic_points'))
            /\ pc' = "await_scenic"
            /\ UNCHANGED reply
       ELSE /\ Return(response_data)
            /\ UNCHANGED <<issued, inflight>>
    /\ UNCHANGED <<request, fast_route_response, base_duration, max_duration,
                   response_data, scenic_response, places, idx>>

\* The scenic-route call is answered.
ReturnScenic ==
    /\ pc = "await_scenic"
    /\ \E ans \in DirectionsAnswers(ScenicDurations) :
         /\ scenic_response' = ans
         /\ IF CallRaises(ans)
            THEN Raise(ClientError(ans)) /\ UNCHANGED response_data
            ELSE IF ans.code # 200
            THEN Return(response_data) /\ UNCHANGED response_data
            ELSE IF ~ans.json
            THEN Raise(ClientError(ans)) /\ UNCHANGED response_data
            ELSE IF ScenicLegAccepted(ans, max_duration)
            THEN /\ response_data' =
                       Put(response_data, "scenic_route", ScenicRoute(ans.dur, scenic_points))
                 /\ Return(response_data')
            ELSE Return(response_data) /\ UNCHANGED response_data
    /\ inflight' = Resumed(inflight, "scenic")
    /\ UNCHANGED <<request, issued, fast_route_response, base_duration, max_duration,
                   scenic_points, frame>>

Next ==
    \/ Start
    \/ ReturnFast
    \/ ReturnNearby
    \/ ReturnDetails
    \/ ReturnPoints
    \/ ReturnScenic

\* Requests that leave eta_tolerance at its default of 30.
InitDefaultEta == Init /\ request.eta_tolerance = 30

Spec == InitDefaultEta /\ [][Next]_vars

\* Requests with any of the values of eta_tolerance.
SpecEta == Init /\ [][Next]_vars

(***************************************************************************)
(* The claims.                                                             *)
(***************************************************************************)
Done == pc = "done"

Success == Done /\ reply.code = 200

HasFastest == "fastest_route" \in DOMAIN reply.body

HasScenic == "scenic_route" \in DOMAIN reply.body

\* The answer carries a provider status, and it is not "OK".
StatusNotOK(ans) == ans.kind = "http" /\ ans.json /\ ans.status # "OK"

\* A network failure or timeout, or a response other than 200.
TransportFailure(ans) == ans.kind = "exc" \/ (ans.kind = "http" /\ ans.code # 200)

\* The text holds the piece.
Embeds(text, piece) == \E i \in 1..Len(text) : text[i] = piece

\* C1: a success response contains scenic_route if and only if the request
\* had scenic=true, find_scenic_points returned at least one point, and the
\* scenic directions call gave a leg (an "OK" answer) whose duration is at
\* most 2 times the duration of the fastest leg.
C1_ScenicIffThreeGates ==
    Success =>
        (HasScenic <=>
            /\ request.scenic
            /\ Len(scenic_points) >= 1
            /\ IsOK(scenic_response)
            /\ scenic_response.dur <= 2 * fast_route_response.dur)

\* C1 witness: a scenic leg of exactly twice the fastest duration is attached.
C1_Witness ==
    /\ Success
    /\ HasScenic
    /\ scenic_response.dur = 2 * fast_route_response.dur
    /\ reply.body["scenic_route"].duration = 2000

\* C2: when the fastest-route call returns a provider status other than
\* "OK", the request ends with a 400 whose detail embeds that status, and no
\* nearby-search, details or scenic directions call is issued.
C2_FastNotOKGives400 ==
    (Done /\ StatusNotOK(fast_route_response)) =>
        /\ reply.code = 400
        /\ Embeds(reply.detail, fast_route_response.status)
        /\ issued = {"fast"}

\* C2 witness: the fastest-route call answered with a status other than "OK"
\* and the request is answered with the code of the except clause.
C2_Witness ==
    /\ Done
    /\ StatusNotOK(fast_route_response)
    /\ fast_route_response.code = 200
    /\ reply.code = 500
    /\ issued = {"fast"}

\* C3: when the fastest-route call succeeded, scenic=true, at least one
\* point was found and the scenic directions call returns a provider status
\* other than "OK", the request ends in a success response with the
\* fastest_route and without a scenic_route.
C3_ScenicNotOKOmitsScenic ==
    (/\ Done
     /\ IsOK(fast_route_response)
     /\ request.scenic
     /\ Len(scenic_points) >= 1
     /\ StatusNotOK(scenic_response)) =>
        /\ reply.code = 200
        /\ HasFastest
        /\ ~HasScenic

\* C3 witness: the scenic directions call answered 200 with ZERO_RESULTS.
C3_Witness ==
    /\ Done
    /\ Len(scenic_points) >= 1
    /\ scenic_response.code = 200
    /\ scenic_response.status = "ZERO_RESULTS"
    /\ reply.code = 200
    /\ HasFastest

KeywordOrder ==
    <<"tourist attraction", "landmark", "point of interest", "park", "lake", "scenic view">>

KwIndex(keyword) == CHOOSE k \in 1..Len(KeywordOrder) : KeywordOrder[k] = keyword

Prefix(seq, n) == SubSeq(seq, 1, Min(Len(seq), n))

Ids(points) == [i \in 1..Len(points) |-> points[i].place_id]

Args(entries) == [i \in 1..Len(entries) |-> entries[i].arg]

IsNearby(e) == e.api = "nearbysearch"

IsDetails(e) == e.api = "details"

IsAnsweredDetails(e) == e.api = "details" /\ e.outcome # "pending"

InSearch == pc \in {"await_nearby", "await_details", "return_points"}

\* find_scenic_points is at its return statement; what it returns.
AtReturn == pc = "return_points"

FinderResult == Truncated(all_points)

\* The number of places the history holds for the keyword's search.
ListedOf(keyword) ==
    IF \E j \in 1..Len(trace) :
          IsNearby(trace[j]) /\ trace[j].arg = keyword /\ trace[j].outcome = "ok"
    THEN trace[CHOOSE j \in 1..Len(trace) :
                  IsNearby(trace[j]) /\ trace[j].arg = keyword
                                     /\ trace[j].outcome = "ok"].listed
    ELSE 0

\* The first three places of each successful search, keyword by keyword.
RECURSIVE ExpectedIds(_)
ExpectedIds(k) ==
    IF k = 0 THEN <<>>
    ELSE ExpectedIds(k - 1)
            \o [i \in 1..ListedOf(KeywordOrder[k]) |-> <<KeywordOrder[k], i>>]

FromKeyword(points, keyword) ==
    {i \in 1..Len(points) : points[i].place_id[1] = keyword}

\* C5: find_scenic_points returns the first 5 elements of the sequence got
\* by visiting the six keywords in their fixed order and taking the first 3
\* places of each successful search in provider order: a function of the
\* provider's answers, of at most 5 points, at most 3 of them of one keyword.
C5_FirstFiveInKeywordOrder ==
    AtReturn =>
        /\ Ids(FinderResult) = Prefix(ExpectedIds(6), 5)
        /\ Len(FinderResult) <= 5
        /\ \A k \in 1..6 :
              Cardinality(FromKeyword(FinderResult, KeywordOrder[k])) <= 3

\* C5 witness: more than 5 points were accumulated, a search listed more
\* than it contributes, and the result holds places of two keywords.
C5_Witness ==
    /\ AtReturn
    /\ Len(all_points) > 5
    /\ Len(FinderResult) = 5
    /\ \E k \in 1..5 :
          /\ Cardinality(FromKeyword(FinderResult, KeywordOrder[k])) = 3
          /\ Cardinality(FromKeyword(FinderResult, KeywordOrder[k + 1])) = 2

\* C6: a keyword whose nearby-search fails contributes no point and no
\* details call, the next keyword is searched right after it, the points of
\* the earlier keywords stay as they were, and neither the search nor the
\* request is ended by it.
C6_FailedKeywordSkipped ==
    \A j \in 1..Len(trace) :
        (IsNearby(trace[j]) /\ trace[j].outcome = "failed") =>
            /\ FromKeyword(all_points, trace[j].arg) = {}
            /\ \A m \in 1..Len(trace) :
                  IsDetails(trace[m]) => trace[m].arg[1] # trace[j].arg
            /\ IF KwIndex(trace[j].arg) < 6
               THEN /\ j < Len(trace)
                    /\ IsNearby(trace[j + 1])
                    /\ trace[j + 1].arg = KeywordOrder[KwIndex(trace[j].arg) + 1]
               ELSE j = Len(trace) /\ AtReturn
            /\ Ids(all_points) = Args(SelectSeq(trace, IsAnsweredDetails))
            /\ InSearch
            /\ reply = NoReply

\* C6 witness: the search of a keyword failed, and the result holds a point
\* of an earlier and a point of a later keyword.
C6_Witness ==
    /\ AtReturn
    /\ \E j \in 1..Len(trace) :
          /\ IsNearby(trace[j])
          /\ trace[j].outcome = "failed"
          /\ \E a, b \in 1..Len(all_points) :
                /\ KwIndex(all_points[a].place_id[1]) < KwIndex(trace[j].arg)
                /\ KwIndex(all_points[b].place_id[1]) > KwIndex(trace[j].arg)

NoCall == Call("none", <<>>)

SameCall(a, b) == a.api = b.api /\ a.arg = b.arg

\* The call after the last call of keyword number k.
AfterKeyword(k) ==
    IF k < 6 THEN Call("nearbysearch", KeywordOrder[k + 1]) ELSE NoCall

\* The call that follows the answered call at position j of the history,
\* when every call is issued once, in order, whatever the answers' failures.
Following(j) ==
    IF IsNearby(trace[j])
    THEN IF trace[j].outcome = "ok" /\ trace[j].listed > 0
         THEN Call("details", <<trace[j].arg, 1>>)
         ELSE AfterKeyword(KwIndex(trace[j].arg))
    ELSE IF trace[j].arg[2] < ListedOf(trace[j].arg[1])
         THEN Call("details", <<trace[j].arg[1], trace[j].arg[2] + 1>>)
         ELSE AfterKeyword(KwIndex(trace[j].arg[1]))

\* The history goes on after position j as Following(j) says.
GoesOn(j) ==
    IF j < Len(trace)
    THEN SameCall(trace[j + 1], Following(j))
    ELSE AtReturn /\ Following(j).api = "none"

\* C7: a details call that fails gives an empty details object: the place's
\* point is appended at its position all the same, with address,
\* description, website and phone absent and opening_hours empty, and the
\* call that follows is the one that follows a successful details call.
C7_FailedDetailsKeepsPoint ==
    /\ \A j \in 1..Len(trace) :
          (IsDetails(trace[j]) /\ trace[j].outcome = "failed") =>
              LET i == Len(SelectSeq(SubSeq(trace, 1, j), IsDetails))
              IN  /\ Len(all_points) >= i
                  /\ all_points[i].place_id = trace[j].arg
                  /\ all_points[i].address = None
                  /\ all_points[i].description = None
                  /\ all_points[i].website = None
                  /\ all_points[i].phone = None
                  /\ all_points[i].opening_hours = <<>>
                  /\ GoesOn(j)
    /\ AtReturn => Ids(all_points) = Args(SelectSeq(trace, IsDetails))

\* C7 witness: a details call failed, its point is in the result without
\* details, and points with details come before and after it.
C7_Witness ==
    /\ AtReturn
    /\ Len(FinderResult) = MaxPoints
    /\ \E j \in 1..Len(trace) : IsDetails(trace[j]) /\ trace[j].outcome = "failed"
    /\ \E i \in 2..4 :
          /\ FinderResult[i].address = None
          /\ FinderResult[i].opening_hours = <<>>
          /\ FinderResult[i - 1].address # None
          /\ FinderResult[i + 1].address # None

\* C10: find_scenic_points issues one nearby-search for each of the six
\* keywords, in order, however many points it holds already, and one details
\* call for each of the first 3 places of each successful search (18 at
\* most), also for the places the truncation to 5 drops; no call is issued
\* twice.
C10_EveryKeywordSearchedOnce ==
    LET searches == Args(SelectSeq(trace, IsNearby))
        lookups == Args(SelectSeq(trace, IsDetails))
    IN  AtReturn =>
            /\ Cardinality({searches[i] : i \in 1..Len(searches)}) = Len(searches)
            /\ Cardinality({lookups[i] : i \in 1..Len(lookups)}) = Len(lookups)
            /\ searches = KeywordOrder
            /\ lookups = ExpectedIds(6)
            /\ Len(lookups) <= 18
            /\ \A j \in 1..Len(trace) : trace[j].outcome # "pending"

\* C10 witness: 5 points were held before the fourth keyword was searched,
\* all six keywords were searched, and 18 details calls were issued.
C10_Witness ==
    /\ AtReturn
    /\ Len(SelectSeq(trace, IsDetails)) = 18
    /\ Len(all_points) = 18
    /\ Len(SelectSeq(trace, IsNearby)) = 6

(* ------------------------ the claims on the calls ---------------------- *)
InFlight(api) == \E c \in inflight : c.api = api

\* C9: at most one outbound call is in flight at any time; the fastest-route
\* call is answered before a nearby-search or details call is issued; a
\* details call is in flight only after the nearby-search that listed its
\* place was answered; the scenic-route call is issued only when
\* find_scenic_points has returned, with every one of its calls answered.
C9_OneCallAtATime ==
    /\ Cardinality(inflight) <= 1
    /\ (issued \cap {"nearbysearch", "details", "scenic"} # {}) =>
          (fast_route_response # NoAnswer /\ ~InFlight("fast"))
    /\ \A c \in inflight :
          c.api = "details" =>
              /\ ~InFlight("nearbysearch")
              /\ \E j \in 1..Len(trace) :
                    /\ IsNearby(trace[j])
                    /\ trace[j].arg = c.arg[1]
                    /\ trace[j].outcome = "ok"
                    /\ c.arg[2] <= trace[j].listed
              /\ IsDetails(trace[Len(trace)])
              /\ trace[Len(trace)].arg = c.arg
    /\ \A j \in 1..Len(trace) :
          trace[j].outcome = "pending" =>
              (j = Len(trace) /\ inflight = {Call(trace[j].api, trace[j].arg)})
    /\ AtReturn => inflight = {}
    /\ "scenic" \in issued =>
          /\ pc \in {"await_scenic", "done"}
          /\ trace = <<>>
          /\ ~InFlight("nearbysearch")
          /\ ~InFlight("details")
    /\ Done => inflight = {}

\* C9 witness: the scenic-route call is the one call in flight, after
\* nearby-search and details calls were issued.
C9_Witness ==
    /\ pc = "await_scenic"
    /\ issued = {"fast", "nearbysearch", "details", "scenic"}
    /\ Cardinality(inflight) = 1
    /\ InFlight("scenic")

(* --------------------- the claim on eta_tolerance ---------------------- *)
\* The point of the place of an answered details call, from the provider's
\* answers alone.
RefPoint(e) ==
    LET place == ProviderResults(e.arg[1], e.arg[2])[e.arg[2]]
        found == DetailsResult(e.arg)
        ok == e.outcome = "ok"
    IN  [location |-> <<place.geometry.location.lat, ",", place.geometry.location.lng>>,
         type |-> IF KwIndex(e.arg[1]) <= 3 THEN "attraction" ELSE "nature",
         name |-> place.name,
         weight |-> 1,
         place_id |-> e.arg,
         address |-> IF ok THEN found.formatted_address ELSE None,
         description |-> IF ok THEN found.editorial_summary.overview ELSE None,
         website |-> IF ok THEN found.website ELSE None,
         phone |-> IF ok THEN found.formatted_phone_number ELSE None,
         opening_hours |-> IF ok THEN found.opening_hours.weekday_text ELSE <<>>]

\* The first five points, from the provider's answers alone.
RefResult ==
    LET answered == Prefix(SelectSeq(trace, IsAnsweredDetails), 5)
    IN  [i \in 1..Len(answered) |-> RefPoint(answered[i])]

\* The scenic leg is attached, from the scenic flag and the answers alone.
RefAttached ==
    /\ request.scenic
    /\ Len(scenic_points) >= 1
    /\ IsOK(scenic_response)
    /\ scenic_response.dur <= 2 * fast_route_response.dur

\* The calls of find_scenic_points up to keyword number k, from the
\* provider's answers alone: the search of each keyword, then the details
\* of the places it listed.
RECURSIVE RefCalls(_)
RefCalls(k) ==
    IF k = 0 THEN <<>>
    ELSE RefCalls(k - 1)
            \o <<Call("nearbysearch", KeywordOrder[k])>>
            \o [i \in 1..ListedOf(KeywordOrder[k]) |->
                    Call("details", <<KeywordOrder[k], i>>)]

\* The status code of the response, from the scenic flag and the answers.
RefCode ==
    IF ~IsOK(fast_route_response) THEN 500
    ELSE IF scenic_response.kind = "exc" THEN 500
    ELSE IF scenic_response.kind = "http" /\ scenic_response.code = 200
                                           /\ ~scenic_response.json THEN 500
    ELSE 200

RefBody ==
    IF RefCode # 200 THEN EmptyDict
    ELSE IF RefAttached
    THEN [fastest_route |-> [duration |-> fast_route_response.dur],
          scenic_route |-> [duration |-> scenic_response.dur,
                            scenic_points |-> scenic_points]]
    ELSE [fastest_route |-> [duration |-> fast_route_response.dur]]

\* C8: eta_tolerance has no influence: the calls issued, their parameters
\* and the response are given by the rest of the request and the provider's
\* answers, and the budget is 2 times the fastest duration whatever
\* eta_tolerance is.
C8_EtaToleranceIgnored ==
    /\ AtReturn =>
          /\ LET calls == RefCalls(6)
             IN  /\ Len(trace) = Len(calls)
                 /\ \A j \in 1..Len(trace) : SameCall(trace[j], calls[j])
          /\ FinderResult = RefResult
    /\ pc = "await_scenic" =>
          \A c \in inflight :
              /\ c.api = "scenic"
              /\ c.arg = [i \in 1..Len(scenic_points) |->
                              <<"via:", scenic_points[i].location>>]
    /\ IsOK(fast_route_response) => max_duration = 2 * fast_route_response.dur
    /\ Done =>
          /\ reply.code = RefCode
          /\ reply.body = RefBody
          /\ "nearbysearch" \in issued <=> (request.scenic /\ IsOK(fast_route_response))
          /\ "scenic" \in issued <=> scenic_response # NoAnswer

\* C8 witness: a request with an eta_tolerance other than the default got a
\* scenic leg of twice the fastest duration attached.
C8_Witness ==
    /\ Done
    /\ request.eta_tolerance # 30
    /\ HasScenic
    /\ scenic_response.dur = 2 * fast_route_response.dur

====
